---- MODULE Spec2Model ----
(***************************************************************************)
(* The direct REST client of src/app.py: a Flask application whose routes  *)
(* each turn one inbound HTTP request into at most one authenticated call  *)
(* to the vendor's REST API, behind a lazily built singleton client.       *)
(*                                                                         *)
(* Conventions of the model                                                *)
(*   - An optional value (Python's None or a value) is a sequence of       *)
(*     length 0 (None) or 1 (the value).                                   *)
(*   - A URL or an endpoint is a sequence of tokens; "/" is a token of its *)
(*     own, so that rstrip('/') and the f-strings are computed, not        *)
(*     assumed.  A decimal string (the limit argument) is a sequence of    *)
(*     one-character tokens.  Other texts are TLA+ strings.                *)
(*   - A JSON object, the query arguments, and a keyword-argument dict are *)
(*     sets of <<name, value>> pairs with distinct names.                  *)
(***************************************************************************)
EXTENDS Integers, Sequences, FiniteSets, TLC

\* Number of worker threads serving requests concurrently (SpecConc).
NumThreads == 2

\* Largest number of fields of an inbound JSON object.
MaxFields == 2

\* request.args.get('limit', 10): the default limit.
DefaultLimit == 10

(***************************************************************************)
(* Optional values                                                         *)
(***************************************************************************)
None == <<>>

Some(v) == <<v>>

IsNone(o) == Len(o) = 0

Val(o) == o[1]

(***************************************************************************)
(* Dictionaries as sets of <<name, value>> pairs                           *)
(***************************************************************************)
Keys(d) == {kv[1] : kv \in d}

Has(d, k) == k \in Keys(d)

Get(d, k) == (CHOOSE kv \in d : kv[1] = k)[2]

\* dict.get(k, default)
GetOr(d, k, default) == IF Has(d, k) THEN Get(d, k) ELSE default

\* Python truthiness of a string value: the empty string is falsy.
TruthyStr(s) == s # ""

\* `not data.get(k)` for a dict of strings: k absent (None) or empty.
FalsyGet(d, k) == ~Has(d, k) \/ ~TruthyStr(Get(d, k))

(***************************************************************************)
(* Strings as token sequences                                              *)
(***************************************************************************)
\* str.rstrip('/'): drop every trailing "/".
RECURSIVE RStripSlash(_)
RStripSlash(s) ==
    IF Len(s) > 0 /\ s[Len(s)] = "/"
    THEN RStripSlash(SubSeq(s, 1, Len(s) - 1))
    ELSE s

Digits == {"0", "1", "2", "3", "4", "5", "6", "7", "8", "9"}

DigitVal(c) ==
    CASE c = "0" -> 0 [] c = "1" -> 1 [] c = "2" -> 2 [] c = "3" -> 3
      [] c = "4" -> 4 [] c = "5" -> 5 [] c = "6" -> 6 [] c = "7" -> 7
      [] c = "8" -> 8 [] c = "9" -> 9

RECURSIVE DecValue(_)
DecValue(s) ==
    IF Len(s) = 0 THEN 0
    ELSE 10 * DecValue(SubSeq(s, 1, Len(s) - 1)) + DigitVal(s[Len(s)])

AllDigits(s) == Len(s) > 0 /\ \A i \in 1..Len(s) : s[i] \in Digits

\* int(s) for a str s: an optional sign, then at least one digit; anything
\* else raises ValueError.  IntOk says whether int(s) returns.
IntOk(s) ==
    IF Len(s) > 0 /\ s[1] \in {"+", "-"}
    THEN AllDigits(Tail(s))
    ELSE AllDigits(s)

IntOf(s) ==
    IF s[1] = "-" THEN 0 - DecValue(Tail(s))
    ELSE IF s[1] = "+" THEN DecValue(Tail(s))
    ELSE DecValue(s)

(***************************************************************************)
(* The process environment (os.environ), fixed when the process starts     *)
(***************************************************************************)
UrlChoices == {None, Some(<<>>), Some(<<"https://snow">>),
               Some(<<"https://snow", "/">>), Some(<<"https://snow", "/", "/">>)}

UserChoices == {None, Some(""), Some("admin")}

PasswordChoices == {None, Some(""), Some("secret")}

\* all([x]) for one optional variable: set and not empty.
TruthyOpt(o, empty) == ~IsNone(o) /\ Val(o) # empty

\* A variant of CredsPresent that tests `is not None` instead of truthiness:
\* an empty variable passes.
CredsSet(e) ==
    /\ ~IsNone(e.instance_url)
    /\ ~IsNone(e.username)
    /\ ~IsNone(e.password)

\* all([instance_url, username, password])
CredsPresent(e) ==
    /\ TruthyOpt(e.instance_url, <<>>)
    /\ TruthyOpt(e.username, "")
    /\ TruthyOpt(e.password, "")

NumMissing(e) ==
      (IF TruthyOpt(e.instance_url, <<>>) THEN 0 ELSE 1)
    + (IF TruthyOpt(e.username, "") THEN 0 ELSE 1)
    + (IF TruthyOpt(e.password, "") THEN 0 ELSE 1)

\* The environments explored: all three variables good, exactly one of
\* them unset or empty, or all three unset.
Envs ==
    {e \in [instance_url : UrlChoices, username : UserChoices,
            password : PasswordChoices] :
        \/ NumMissing(e) <= 1
        \/ e = [instance_url |-> None, username |-> None, password |-> None]}

MissingEnvMessage ==
    "Missing required environment variables: SERVICENOW_INSTANCE_URL, SERVICENOW_USERNAME, SERVICENOW_PASSWORD"

(***************************************************************************)
(* class ServiceNowClient                                                  *)
(***************************************************************************)
\* ServiceNowClient.__init__; id is the identity of the object built.
NewClient(id, instance_url, username, password) ==
    [id           |-> id,
     instance_url |-> RStripSlash(instance_url),
     username     |-> username,
     password     |-> password,
     auth         |-> [username |-> username, password |-> password],
     headers      |-> {<<"Content-Type", "application/json">>,
                       <<"Accept", "application/json">>}]

\* str.upper() on the verbs the client methods pass.
Upper(m) ==
    CASE m = "get" -> "GET" [] m = "post" -> "POST"
      [] m = "put" -> "PUT" [] m = "patch" -> "PATCH"
      [] OTHER -> m

\* An exception: its class and str(e).
Exc(type, text) == [type |-> type, text |-> text]

\* The first half of _make_request: the URL and the requests.<verb>(...) call
\* it issues, or the ValueError of an unsupported verb.  GET sends data as
\* params, the other verbs as the JSON body.
MakeRequestSend(client, method, endpoint, data) ==
    LET url == client.instance_url \o <<"/", "api", "/", "now", "/">> \o endpoint
        verb == Upper(method)
        base == [verb |-> verb, url |-> url, auth |-> client.auth,
                 headers |-> client.headers, params |-> None, json |-> None]
    IN  IF verb = "GET"
        THEN [kind |-> "send", call |-> [base EXCEPT !.params = data]]
        ELSE IF verb \in {"POST", "PUT", "PATCH"}
        THEN [kind |-> "send", call |-> [base EXCEPT !.json = data]]
        ELSE [kind |-> "raise",
              exc |-> Exc("ValueError", "Unsupported HTTP method: " \o method)]

\* What the vendor (and the transport) can do with one call.
\*   ok        a 2xx response whose body is the JSON document `text`
\*   transport requests raised (connection refused, timeout, ...)
\*   http      a non-2xx response: raise_for_status() raises HTTPError
\*   badjson   a 2xx response whose body is not JSON: response.json() raises
Payloads == {"{result: INC001}", "{result: INC002}"}

Outcomes ==
    {[kind |-> "ok", text |-> p] : p \in Payloads}
    \cup {[kind |-> "transport", text |-> "Connection refused"],
          [kind |-> "http", text |-> "404 Client Error: Not Found"],
          [kind |-> "badjson", text |-> "Expecting value: line 1 column 1 (char 0)"]}

\* The second half of _make_request: response.raise_for_status(),
\* response.json(), and the except clause that logs and re-raises.
MakeRequestReturn(outcome) ==
    IF outcome.kind = "ok"
    THEN [kind |-> "return", value |-> outcome.text, log |-> <<>>]
    ELSE [kind |-> "raise",
          exc  |-> Exc(CASE outcome.kind = "transport" -> "ConnectionError"
                         [] outcome.kind = "http" -> "HTTPError"
                         [] outcome.kind = "badjson" -> "JSONDecodeError",
                       outcome.text),
          log  |-> << <<"ERROR", "ServiceNow API error: " \o outcome.text>> >>]

\* Python's binding of a call f(<positional>, **kw) to a signature
\* (self, p1, ..., **kwargs): sig is the sequence of named parameters,
\* npos the number of them bound positionally (self included).  A keyword
\* naming a parameter already bound raises TypeError; so does a named
\* parameter left unbound.  Otherwise the remaining keywords are **kwargs.
BindKwargs(fname, sig, npos, kw) ==
    LET named   == {sig[i] : i \in 1..Len(sig)}
        bound   == {sig[i] : i \in 1..npos}
        dupIdx  == {i \in 1..npos : sig[i] \in Keys(kw)}
        missIdx == {i \in (npos + 1)..Len(sig) : sig[i] \notin Keys(kw)}
        first(S) == CHOOSE i \in S : \A j \in S : i <= j
    IN  IF dupIdx # {}
        THEN [kind |-> "raise",
              exc |-> Exc("TypeError",
                          fname \o "() got multiple values for argument '"
                            \o sig[first(dupIdx)] \o "'")]
        ELSE IF missIdx # {}
        THEN [kind |-> "raise",
              exc |-> Exc("TypeError",
                          fname \o "() missing 1 required positional argument: '"
                            \o sig[first(missIdx)] \o "'")]
        ELSE [kind   |-> "bound",
              args   |-> {kv \in kw : kv[1] \in named},
              kwargs |-> {kv \in kw : kv[1] \notin named}]

\* A client method's single call of _make_request.
Request(method, endpoint, data) ==
    [kind |-> "request", method |-> method, endpoint |-> endpoint, data |-> data]

\* client.create_incident(**data)
ClientCreateIncident(data) ==
    LET b == BindKwargs("ServiceNowClient.create_incident",
                        <<"self", "short_description">>, 1, data)
    IN  IF b.kind = "raise" THEN b
        ELSE Request("POST", <<"table", "/", "incident">>,
                     Some({<<"short_description", Get(b.args, "short_description")>>}
                          \cup b.kwargs))

\* client.get_incident(sys_id)
ClientGetIncident(sys_id) ==
    Request("GET", <<"table", "/", "incident", "/", sys_id>>, None)

\* A variant of ClientUpdateIncident that sends PUT.
ClientUpdateIncidentPut(sys_id, data) ==
    LET b == BindKwargs("ServiceNowClient.update_incident",
                        <<"self", "sys_id">>, 2, data)
    IN  IF b.kind = "raise" THEN b
        ELSE Request("PUT", <<"table", "/", "incident", "/", sys_id>>,
                     Some(b.kwargs))

\* client.update_incident(sys_id, **data)
ClientUpdateIncident(sys_id, data) ==
    LET b == BindKwargs("ServiceNowClient.update_incident",
                        <<"self", "sys_id">>, 2, data)
    IN  IF b.kind = "raise" THEN b
        ELSE Request("PATCH", <<"table", "/", "incident", "/", sys_id>>,
                     Some(b.kwargs))

\* client.search_incidents(query, limit)
ClientSearchIncidents(query, limit) ==
    Request("GET", <<"table", "/", "incident">>,
            Some({<<"sysparm_query", query>>, <<"sysparm_limit", limit>>}))

\* A variant of ClientGetTableRecords that tests `query is not None`.
ClientGetTableRecordsAnyQuery(table, query, limit) ==
    Request("GET", <<"table", "/", table>>,
            Some({<<"sysparm_limit", limit>>}
                 \cup (IF ~IsNone(query)
                       THEN {<<"sysparm_query", Val(query)>>}
                       ELSE {})))

\* client.get_table_records(table, query, limit); query is optional.
ClientGetTableRecords(table, query, limit) ==
    Request("GET", <<"table", "/", table>>,
            Some({<<"sysparm_limit", limit>>}
                 \cup (IF ~IsNone(query) /\ TruthyStr(Val(query))
                       THEN {<<"sysparm_query", Val(query)>>}
                       ELSE {})))

\* client.get_record(table, sys_id)
ClientGetRecord(table, sys_id) ==
    Request("GET", <<"table", "/", table, "/", sys_id>>, None)

(***************************************************************************)
(* Inbound requests                                                        *)
(***************************************************************************)
Methods == {"GET", "POST", "PATCH", "PUT", "DELETE"}

\* URL paths, split at "/".
Paths ==
    {<<>>,
     <<"mcp", "tools">>,
     <<"mcp", "resources">>,
     <<"mcp", "incident", "create">>,
     <<"mcp", "incident", "abc123">>,
     <<"mcp", "incidents", "search">>,
     <<"mcp", "incidents">>,
     <<"mcp", "table", "cmdb_ci">>,
     <<"mcp", "table", "cmdb_ci", "abc123">>,
     <<"mcp">>,
     <<"mcp", "unknown">>,
     <<"mcp", "incident">>,
     <<"mcp", "table", "cmdb_ci", "abc123", "extra">>}

FieldPool ==
    {<<"short_description", "">>, <<"short_description", "Printer down">>,
     <<"priority", "3">>, <<"state", "2">>,
     <<"self", "x">>, <<"sys_id", "zzz">>}

\* JSON objects: sets of fields with distinct names.
JsonObjects ==
    {o \in SUBSET FieldPool :
        /\ Cardinality(o) <= MaxFields
        /\ \A a \in o, b \in o : a[1] = b[1] => a = b}

\* The body of a request as request.get_json() sees it:
\*   none       no JSON document (or the JSON null): get_json() returns None
\*   malformed  a JSON content type with an unparsable body: get_json()
\*              raises BadRequest
\*   object     a JSON object
Bodies ==
    {[kind |-> "none", obj |-> {}], [kind |-> "malformed", obj |-> {}]}
    \cup {[kind |-> "object", obj |-> o] : o \in JsonObjects}

QueryChoices == {None, Some(""), Some("active=true")}

LimitChoices ==
    {None, Some(<<>>), Some(<<"5">>), Some(<<"2", "5">>),
     Some(<<"-", "1">>), Some(<<"a", "b", "c">>)}

ArgsOf(q, l) ==
    (IF IsNone(q) THEN {} ELSE {<<"query", Val(q)>>})
    \cup (IF IsNone(l) THEN {} ELSE {<<"limit", Val(l)>>})

ArgSets == {ArgsOf(q, l) : q \in QueryChoices, l \in LimitChoices}

\* The requests explored: a body only on the verbs that carry one; on
\* those, the query string is empty or one fixed string.
Requests ==
    {r \in [method : Methods, path : Paths, body : Bodies, args : ArgSets] :
        /\ r.method \in {"GET", "DELETE"} => r.body.kind = "none"
        /\ r.method = "DELETE" => r.args = {}
        /\ r.method \in {"POST", "PATCH", "PUT"} =>
               r.args \in {{}, ArgsOf(Some(""), Some(<<"a", "b", "c">>))}}

(***************************************************************************)
(* Routing: the @app.route rules                                           *)
(***************************************************************************)
\* A rule: its path pattern (a segment "<name>" is a variable), the verbs
\* it accepts, and the view function.
Rule(pattern, methods, view) ==
    [pattern |-> pattern, methods |-> methods, view |-> view]

Rules ==
    {Rule(<<>>, {"GET"}, "health_check"),
     Rule(<<"mcp", "tools">>, {"GET"}, "list_tools"),
     Rule(<<"mcp", "resources">>, {"GET"}, "list_resources"),
     Rule(<<"mcp", "incident", "create">>, {"POST"}, "create_incident"),
     Rule(<<"mcp", "incident", "<sys_id>">>, {"GET"}, "get_incident"),
     Rule(<<"mcp", "incident", "<sys_id>">>, {"PATCH", "PUT"}, "update_incident"),
     Rule(<<"mcp", "incidents", "search">>, {"GET"}, "search_incidents"),
     Rule(<<"mcp", "incidents">>, {"GET"}, "list_incidents"),
     Rule(<<"mcp", "table", "<table_name>">>, {"GET"}, "query_table"),
     Rule(<<"mcp", "table", "<table_name>", "<sys_id>">>, {"GET"}, "get_record")}

IsVar(seg) == seg \in {"<sys_id>", "<table_name>"}

\* The views that call the vendor.
VendorViews ==
    {"create_incident", "get_incident", "update_incident", "search_incidents",
     "list_incidents", "query_table", "get_record"}

\* A variant of PathMatches that matches a rule against a prefix of the path.
PathMatchesPrefix(pattern, path) ==
    /\ Len(pattern) <= Len(path)
    /\ \A i \in 1..Len(pattern) : IsVar(pattern[i]) \/ pattern[i] = path[i]

PathMatches(pattern, path) ==
    /\ Len(pattern) = Len(path)
    /\ \A i \in 1..Len(path) : IsVar(pattern[i]) \/ pattern[i] = path[i]

\* The view arguments a rule binds from a path.
ViewArgs(pattern, path) ==
    {<<pattern[i], path[i]>> : i \in {j \in 1..Len(pattern) : IsVar(pattern[j])}}

\* Flask's dispatch: the rule that matches the path and accepts the verb;
\* 405 when rules match the path but none accepts the verb; 404 when no
\* rule matches the path.
Dispatch(method, path) ==
    LET byPath == {r \in Rules : PathMatches(r.pattern, path)}
        hits   == {r \in byPath : method \in r.methods}
    IN  IF byPath = {} THEN [kind |-> "404", view |-> "not_found", args |-> {}]
        ELSE IF hits = {} THEN [kind |-> "405", view |-> "", args |-> {}]
        ELSE LET r == CHOOSE h \in hits : TRUE
             IN  [kind |-> "view", view |-> r.view,
                  args |-> ViewArgs(r.pattern, path)]

(***************************************************************************)
(* The view functions                                                      *)
(***************************************************************************)
\* jsonify(body), code
Response(code, body) == [code |-> code, body |-> body]

\* What a stretch of a view function ends with: the HTTP response it
\* returns, or the outbound call it blocks on; and what it logged.
Respond(resp, log) ==
    [kind |-> "respond", resp |-> Some(resp), call |-> None, log |-> log]

Send(call, log) ==
    [kind |-> "send", resp |-> None, call |-> Some(call), log |-> log]

\* request.get_json()
GetJson(body) ==
    CASE body.kind = "none" -> [kind |-> "return", value |-> None]
      [] body.kind = "object" -> [kind |-> "return", value |-> Some(body.obj)]
      [] body.kind = "malformed" ->
            [kind |-> "raise",
             exc |-> Exc("BadRequest",
                         "400 Bad Request: The browser (or proxy) sent a request that this server could not understand.")]

RECURSIVE Join(_)
Join(s) == IF Len(s) = 0 THEN "" ELSE Head(s) \o Join(Tail(s))

\* int(request.args.get('limit', 10))
ParseLimit(args) ==
    IF ~Has(args, "limit")
    THEN [kind |-> "return", value |-> DefaultLimit]
    ELSE LET s == Get(args, "limit")
         IN  IF IntOk(s)
             THEN [kind |-> "return", value |-> IntOf(s)]
             ELSE [kind |-> "raise",
                   exc |-> Exc("ValueError",
                               "invalid literal for int() with base 10: '"
                                 \o Join(s) \o "'")]

\* The text each view's except clause logs before the message.
ErrPrefix(view) ==
    CASE view = "create_incident" -> "Error creating incident: "
      [] view = "get_incident" -> "Error getting incident: "
      [] view = "update_incident" -> "Error updating incident: "
      [] view = "search_incidents" -> "Error searching incidents: "
      [] view = "list_incidents" -> "Error listing incidents: "
      [] view = "query_table" -> "Error querying table: "
      [] view = "get_record" -> "Error getting record: "

\* A variant of HandlerErr that hides the message.
HandlerErrGeneric(view, exc, log) ==
    Respond(Response(500, {<<"status", "error">>,
                           <<"error", "Internal server error">>}),
            Append(log, <<"ERROR", ErrPrefix(view) \o exc.text>>))

\* `except Exception as e` of a view: log, and a 500 carrying str(e).
HandlerErr(view, exc, log) ==
    Respond(Response(500, {<<"status", "error">>, <<"error", exc.text>>}),
            Append(log, <<"ERROR", ErrPrefix(view) \o exc.text>>))

\* The call of a client method from a view's try block, up to the point
\* where _make_request hands the call to the transport.
CallClient(view, client, r, log) ==
    IF r.kind = "raise" THEN HandlerErr(view, r.exc, log)
    ELSE LET s == MakeRequestSend(client, r.method, r.endpoint, r.data)
         IN  IF s.kind = "raise" THEN HandlerErr(view, s.exc, log)
             ELSE Send(s.call, log)

\* A variant of CreateIncident that only tests `not data`.
CreateIncidentNoFieldCheck(client, rq, va) ==
    LET j == GetJson(rq.body)
    IN  IF j.kind = "raise" THEN HandlerErr("create_incident", j.exc, <<>>)
        ELSE IF IsNone(j.value) \/ Val(j.value) = {}
        THEN Respond(Response(400, {<<"error", "short_description is required">>}),
                     <<>>)
        ELSE LET data == Val(j.value)
             IN  CallClient("create_incident", client, ClientCreateIncident(data),
                            << <<"INFO", "Creating incident: "
                                           \o GetOr(data, "short_description", "None")>> >>)

\* create_incident, after get_snow_client()
CreateIncident(client, rq, va) ==
    LET j == GetJson(rq.body)
    IN  IF j.kind = "raise" THEN HandlerErr("create_incident", j.exc, <<>>)
        ELSE IF \/ IsNone(j.value)
                \/ Val(j.value) = {}
                \/ FalsyGet(Val(j.value), "short_description")
        THEN Respond(Response(400, {<<"error", "short_description is required">>}),
                     <<>>)
        ELSE LET data == Val(j.value)
             IN  CallClient("create_incident", client, ClientCreateIncident(data),
                            << <<"INFO", "Creating incident: "
                                           \o Get(data, "short_description")>> >>)

\* get_incident, after get_snow_client()
GetIncident(client, rq, va) ==
    LET sys_id == Get(va, "<sys_id>")
    IN  CallClient("get_incident", client, ClientGetIncident(sys_id),
                   << <<"INFO", "Getting incident: " \o sys_id>> >>)

\* A variant of UpdateIncident that tests `data is None`.
UpdateIncidentNoneOnly(client, rq, va) ==
    LET sys_id == Get(va, "<sys_id>")
        j == GetJson(rq.body)
    IN  IF j.kind = "raise" THEN HandlerErr("update_incident", j.exc, <<>>)
        ELSE IF IsNone(j.value)
        THEN Respond(Response(400, {<<"error", "No update data provided">>}), <<>>)
        ELSE CallClient("update_incident", client,
                        ClientUpdateIncident(sys_id, Val(j.value)),
                        << <<"INFO", "Updating incident: " \o sys_id>> >>)

\* update_incident, after get_snow_client()
UpdateIncident(client, rq, va) ==
    LET sys_id == Get(va, "<sys_id>")
        j == GetJson(rq.body)
    IN  IF j.kind = "raise" THEN HandlerErr("update_incident", j.exc, <<>>)
        ELSE IF IsNone(j.value) \/ Val(j.value) = {}
        THEN Respond(Response(400, {<<"error", "No update data provided">>}), <<>>)
        ELSE CallClient("update_incident", client,
                        ClientUpdateIncident(sys_id, Val(j.value)),
                        << <<"INFO", "Updating incident: " \o sys_id>> >>)

\* A variant of SearchIncidents that tests the query before it parses the
\* limit.
SearchIncidentsQueryFirst(client, rq, va) ==
    LET query == GetOr(rq.args, "query", "")
        limit == ParseLimit(rq.args)
    IN  IF ~TruthyStr(query)
        THEN Respond(Response(400, {<<"error", "query parameter is required">>}),
                     <<>>)
        ELSE IF limit.kind = "raise"
        THEN HandlerErr("search_incidents", limit.exc, <<>>)
        ELSE CallClient("search_incidents", client,
                        ClientSearchIncidents(query, limit.value),
                        << <<"INFO", "Searching incidents with query: " \o query>> >>)

\* search_incidents, after get_snow_client()
SearchIncidents(client, rq, va) ==
    LET query == GetOr(rq.args, "query", "")
        limit == ParseLimit(rq.args)
    IN  IF limit.kind = "raise" THEN HandlerErr("search_incidents", limit.exc, <<>>)
        ELSE IF ~TruthyStr(query)
        THEN Respond(Response(400, {<<"error", "query parameter is required">>}),
                     <<>>)
        ELSE CallClient("search_incidents", client,
                        ClientSearchIncidents(query, limit.value),
                        << <<"INFO", "Searching incidents with query: " \o query>> >>)

\* list_incidents, after get_snow_client()
ListIncidents(client, rq, va) ==
    LET limit == ParseLimit(rq.args)
    IN  IF limit.kind = "raise" THEN HandlerErr("list_incidents", limit.exc, <<>>)
        ELSE CallClient("list_incidents", client,
                        ClientGetTableRecords("incident", None, limit.value),
                        << <<"INFO", "Listing " \o ToString(limit.value)
                                       \o " recent incidents">> >>)

\* query_table, after get_snow_client()
QueryTable(client, rq, va) ==
    LET table_name == Get(va, "<table_name>")
        query == IF Has(rq.args, "query") THEN Some(Get(rq.args, "query")) ELSE None
        limit == ParseLimit(rq.args)
    IN  IF limit.kind = "raise" THEN HandlerErr("query_table", limit.exc, <<>>)
        ELSE CallClient("query_table", client,
                        ClientGetTableRecords(table_name, query, limit.value),
                        << <<"INFO", "Querying table: " \o table_name>> >>)

\* get_record, after get_snow_client()
GetRecord(client, rq, va) ==
    LET table_name == Get(va, "<table_name>")
        sys_id == Get(va, "<sys_id>")
    IN  CallClient("get_record", client, ClientGetRecord(table_name, sys_id),
                   << <<"INFO", "Getting record from " \o table_name
                                  \o ": " \o sys_id>> >>)

\* A vendor-calling view from the line after get_snow_client() to its
\* first return or to the outbound call.
ViewStart(view, client, rq, va) ==
    CASE view = "create_incident" -> CreateIncident(client, rq, va)
      [] view = "get_incident" -> GetIncident(client, rq, va)
      [] view = "update_incident" -> UpdateIncident(client, rq, va)
      [] view = "search_incidents" -> SearchIncidents(client, rq, va)
      [] view = "list_incidents" -> ListIncidents(client, rq, va)
      [] view = "query_table" -> QueryTable(client, rq, va)
      [] view = "get_record" -> GetRecord(client, rq, va)

\* A variant of SuccessResponse that answers 200 on every route.
SuccessResponseAll200(view, va, result) ==
    Response(200, {<<"status", "success">>, <<"result", result>>})

\* The response of a view whose client call returned `result`.
SuccessResponse(view, va, result) ==
    CASE view = "create_incident" ->
            Response(201, {<<"status", "success">>,
                           <<"message", "Incident created successfully">>,
                           <<"result", result>>})
      [] view = "update_incident" ->
            Response(200, {<<"status", "success">>,
                           <<"message", "Incident updated successfully">>,
                           <<"result", result>>})
      [] view \in {"get_incident", "search_incidents", "list_incidents"} ->
            Response(200, {<<"status", "success">>, <<"result", result>>})
      [] view \in {"query_table", "get_record"} ->
            Response(200, {<<"status", "success">>,
                           <<"table", Get(va, "<table_name>")>>,
                           <<"result", result>>})

\* A vendor-calling view from the return of the outbound call to its end.
ViewFinish(view, va, outcome) ==
    LET ret == MakeRequestReturn(outcome)
    IN  IF ret.kind = "return"
        THEN Respond(SuccessResponse(view, va, ret.value), ret.log)
        ELSE HandlerErr(view, ret.exc, ret.log)

\* health_check, list_tools, list_resources: no client, no call.  The nested
\* lists and dicts of their bodies are constants, written as one token each.
StaticView(view) ==
    CASE view = "health_check" ->
            Response(200, {<<"status", "healthy">>,
                           <<"service", "ServiceNow MCP Server (HTTP Wrapper)">>,
                           <<"version", "1.0.0">>,
                           <<"endpoints", "<endpoints>">>})
      [] view = "list_tools" -> Response(200, {<<"tools", "<tools>">>})
      [] view = "list_resources" -> Response(200, {<<"resources", "<resources>">>})

\* @app.errorhandler(404)
NotFound ==
    Response(404, {<<"error", "Endpoint not found">>,
                   <<"message", "Please check the API documentation at GET /">>})

\* Flask's own answer when rules match the path and none accepts the verb.
MethodNotAllowed == Response(405, {})

(***************************************************************************)
(* get_snow_client and the module's state                                  *)
(***************************************************************************)
\* get_snow_client past `if snow_client is None`: read the environment,
\* raise when a variable is missing, else build the n+1st client.
GetSnowClientBuild(e, n) ==
    IF ~CredsPresent(e)
    THEN [kind |-> "raise", exc |-> Exc("ValueError", MissingEnvMessage),
          client |-> None, log |-> <<>>]
    ELSE LET c == NewClient(n + 1, Val(e.instance_url), Val(e.username),
                            Val(e.password))
         IN  [kind |-> "return", exc |-> Exc("", ""), client |-> Some(c),
              log |-> << <<"INFO", "ServiceNow client initialized for: "
                                     \o Join(c.instance_url)>> >>]

VARIABLES
    env,          \* os.environ: instance_url, username, password
    phase,        \* "import" while the module body runs, then "serving"
    snow_client,  \* the global snow_client: None or the client
    test_client,  \* the global test_client the module body binds
    built,        \* how many ServiceNowClient objects have been constructed
    log,          \* what the module body logged at import
    pc,           \* per thread: "idle", "construct", "await", "done"
    req,          \* per thread: the request being handled
    route,        \* per thread: what Dispatch made of the request
    client,       \* per thread: the view's local `client`
    got,          \* per thread: how get_snow_client ended for this request
    calls,        \* per thread: the outbound calls issued for this request
    reply,        \* per thread: the outcome of the outbound call
    resp,         \* per thread: the HTTP response returned
    tlog,         \* per thread: what was logged while handling this request
    mcp_available,\* app_mcp.py: MCP_AVAILABLE, whether the mcp library imported
    mcp_bridge,   \* app_mcp.py: the global mcp_bridge, None or the bridge
    loops,        \* app_mcp.py, per thread: the event loops this request made
    sessions      \* app_mcp.py, per thread: the stdio_client sessions it began

globals == <<env, phase, snow_client, test_client, built, log>>

locals == <<pc, req, route, client, got, calls, reply, resp, tlog>>

\* The state of app_mcp.py, a separate application: untouched by app.py.
bridge == <<mcp_available, mcp_bridge, loops, sessions>>

vars == <<env, phase, snow_client, test_client, built, log,
          pc, req, route, client, got, calls, reply, resp, tlog,
          mcp_available, mcp_bridge, loops, sessions>>

Threads == DOMAIN pc

NoRoute == [kind |-> "", view |-> "", args |-> {}]

InitThreads(T) ==
    /\ pc = [t \in T |-> "idle"]
    /\ req = [t \in T |-> None]
    /\ route = [t \in T |-> NoRoute]
    /\ client = [t \in T |-> None]
    /\ got = [t \in T |-> "none"]
    /\ calls = [t \in T |-> <<>>]
    /\ reply = [t \in T |-> None]
    /\ resp = [t \in T |-> None]
    /\ tlog = [t \in T |-> <<>>]

InitGlobals ==
    /\ env \in Envs
    /\ phase = "import"
    /\ snow_client = None
    /\ test_client = None
    /\ built = 0
    /\ log = <<>>

\* app_mcp.py is not loaded.
InitNoBridge(T) ==
    /\ mcp_available = FALSE
    /\ mcp_bridge = None
    /\ loops = [t \in T |-> <<>>]
    /\ sessions = [t \in T |-> <<>>]

\* One request at a time.
Init == InitGlobals /\ InitThreads({1}) /\ InitNoBridge({1})

\* NumThreads threads serving requests concurrently.
InitConc ==
    InitGlobals /\ InitThreads(1..NumThreads) /\ InitNoBridge(1..NumThreads)

\* A variant of Startup without the connection test: the first requests
\* find no client.
StartupNoTest ==
    /\ phase = "import"
    /\ phase' = "serving"
    /\ UNCHANGED <<env, snow_client, test_client, built, log, locals>>
    /\ UNCHANGED bridge

\* The module body's "Test connection on startup": get_snow_client() in a
\* try block, before any request is served.
Startup ==
    /\ phase = "import"
    /\ LET b == GetSnowClientBuild(env, built)
       IN  IF ~IsNone(snow_client)
           THEN /\ test_client' = snow_client
                /\ log' = Append(log, <<"INFO", "ServiceNow client initialized successfully">>)
                /\ UNCHANGED <<snow_client, built>>
           ELSE IF b.kind = "return"
           THEN /\ snow_client' = b.client
                /\ test_client' = b.client
                /\ built' = built + 1
                /\ log' = Append(log \o b.log,
                                 <<"INFO", "ServiceNow client initialized successfully">>)
           ELSE /\ log' = log \o
                     << <<"ERROR", "Failed to initialize ServiceNow client: " \o b.exc.text>>,
                        <<"ERROR", "The server will start but API calls will fail until credentials are configured">> >>
                /\ UNCHANGED <<snow_client, test_client, built>>
    /\ phase' = "serving"
    /\ UNCHANGED <<env, locals>>
    /\ UNCHANGED bridge

\* Thread t goes on with `step`: it returns a response or blocks on a call.
Advance(t, step) ==
    /\ pc' = [pc EXCEPT ![t] = IF step.kind = "send" THEN "await" ELSE "done"]
    /\ resp' = [resp EXCEPT ![t] = step.resp]
    /\ calls' = [calls EXCEPT ![t] =
                    IF step.kind = "send" THEN Append(@, Val(step.call)) ELSE @]
    /\ tlog' = [tlog EXCEPT ![t] = @ \o step.log]

\* Thread t takes request r: Flask dispatches it; a vendor-calling view
\* enters get_snow_client and tests `snow_client is None`; with a client in
\* hand the view runs on to its first return or to the outbound call.
Receive(t, r) ==
    /\ phase = "serving"
    /\ pc[t] = "idle"
    /\ LET d == Dispatch(r.method, r.path)
       IN  /\ req' = [req EXCEPT ![t] = Some(r)]
           /\ route' = [route EXCEPT ![t] = d]
           /\ IF d.kind = "404"
              THEN /\ Advance(t, Respond(NotFound, <<>>))
                   /\ UNCHANGED <<client, got>>
              ELSE IF d.kind = "405"
              THEN /\ Advance(t, Respond(MethodNotAllowed, <<>>))
                   /\ UNCHANGED <<client, got>>
              ELSE IF d.view \notin VendorViews
              THEN /\ Advance(t, Respond(StaticView(d.view), <<>>))
                   /\ UNCHANGED <<client, got>>
              ELSE IF ~IsNone(snow_client)
              THEN /\ client' = [client EXCEPT ![t] = snow_client]
                   /\ got' = [got EXCEPT ![t] = "cached"]
                   /\ Advance(t, ViewStart(d.view, Val(snow_client), r, d.args))
              ELSE /\ pc' = [pc EXCEPT ![t] = "construct"]
                   /\ UNCHANGED <<client, got, calls, resp, tlog>>
    /\ UNCHANGED <<globals, reply>>
    /\ UNCHANGED bridge

\* Thread t, having seen no client, runs the rest of get_snow_client; on
\* the ValueError the view's except clause answers 500; with the client
\* built the view runs on.
Construct(t) ==
    /\ pc[t] = "construct"
    /\ LET b == GetSnowClientBuild(env, built)
           v == route[t].view
       IN  IF b.kind = "raise"
           THEN /\ got' = [got EXCEPT ![t] = "raised"]
                /\ Advance(t, HandlerErr(v, b.exc, b.log))
                /\ UNCHANGED <<snow_client, built, client>>
           ELSE /\ snow_client' = b.client
                /\ built' = built + 1
                /\ client' = [client EXCEPT ![t] = b.client]
                /\ got' = [got EXCEPT ![t] = "built"]
                /\ LET s == ViewStart(v, Val(b.client), Val(req[t]), route[t].args)
                   IN  Advance(t, [s EXCEPT !.log = b.log \o @])
    /\ UNCHANGED <<env, phase, test_client, log, req, route, reply>>
    /\ UNCHANGED bridge

\* A variant of VendorReply that issues a failed call once more.
VendorReplyRetry(t, o) ==
    /\ pc[t] = "await"
    /\ IF o.kind # "ok" /\ Len(calls[t]) < 2
       THEN /\ calls' = [calls EXCEPT ![t] = Append(@, @[1])]
            /\ UNCHANGED <<pc, resp, tlog, reply>>
       ELSE /\ reply' = [reply EXCEPT ![t] = Some(o)]
            /\ Advance(t, ViewFinish(route[t].view, route[t].args, o))
    /\ UNCHANGED <<globals, req, route, client, got>>
    /\ UNCHANGED bridge

\* A variant of VendorReply that drops the client after a transport error.
VendorReplyDropsClient(t, o) ==
    /\ pc[t] = "await"
    /\ reply' = [reply EXCEPT ![t] = Some(o)]
    /\ Advance(t, ViewFinish(route[t].view, route[t].args, o))
    /\ snow_client' = IF o.kind = "transport" THEN None ELSE snow_client
    /\ UNCHANGED <<env, phase, test_client, built, log, req, route, client, got>>
    /\ UNCHANGED bridge

\* The outbound call of thread t ends with outcome o; _make_request returns
\* or raises, and the view returns its response.
VendorReply(t, o) ==
    /\ pc[t] = "await"
    /\ reply' = [reply EXCEPT ![t] = Some(o)]
    /\ Advance(t, ViewFinish(route[t].view, route[t].args, o))
    /\ UNCHANGED <<globals, req, route, client, got>>
    /\ UNCHANGED bridge

\* An idle thread takes whichever request of R arrives.
Accept(t, R) ==
    /\ phase = "serving"
    /\ pc[t] = "idle"
    /\ \E r \in R : Receive(t, r)

\* A blocked thread gets whatever the vendor and the transport do.
Await(t) ==
    /\ pc[t] = "await"
    /\ \E o \in Outcomes : VendorReply(t, o)

\* The response of thread t is sent; the request's locals are gone.
SendResponse(t) ==
    /\ pc[t] = "done"
    /\ pc' = [pc EXCEPT ![t] = "idle"]
    /\ req' = [req EXCEPT ![t] = None]
    /\ route' = [route EXCEPT ![t] = NoRoute]
    /\ client' = [client EXCEPT ![t] = None]
    /\ got' = [got EXCEPT ![t] = "none"]
    /\ calls' = [calls EXCEPT ![t] = <<>>]
    /\ reply' = [reply EXCEPT ![t] = None]
    /\ resp' = [resp EXCEPT ![t] = None]
    /\ tlog' = [tlog EXCEPT ![t] = <<>>]
    /\ UNCHANGED globals
    /\ loops' = [loops EXCEPT ![t] = <<>>]
    /\ sessions' = [sessions EXCEPT ![t] = <<>>]
    /\ UNCHANGED <<mcp_available, mcp_bridge>>

Next ==
    \/ Startup
    \/ \E t \in Threads : Accept(t, Requests)
    \/ \E t \in Threads : Construct(t)
    \/ \E t \in Threads : Await(t)
    \/ \E t \in Threads : SendResponse(t)

Spec == Init /\ [][Next]_vars

\* The requests of the concurrent runs.
Req(method, path, body, args) ==
    [method |-> method, path |-> path, body |-> body, args |-> args]

NoBody == [kind |-> "none", obj |-> {}]

Object(o) == [kind |-> "object", obj |-> o]

ConcRequests ==
    {Req("GET", <<>>, NoBody, {}),
     Req("GET", <<"mcp", "incident", "abc123">>, NoBody, {}),
     Req("GET", <<"mcp", "unknown">>, NoBody, {}),
     Req("POST", <<"mcp", "incident", "create">>, NoBody, {}),
     Req("POST", <<"mcp", "incident", "create">>,
         Object({<<"short_description", "Printer down">>}), {}),
     Req("PATCH", <<"mcp", "incident", "abc123">>,
         Object({<<"sys_id", "zzz">>}), {})}

NextConc ==
    \/ Startup
    \/ \E t \in Threads : Accept(t, ConcRequests)
    \/ \E t \in Threads : Construct(t)
    \/ \E t \in Threads : Await(t)
    \/ \E t \in Threads : SendResponse(t)

SpecConc == InitConc /\ [][NextConc]_vars

(***************************************************************************)
(* Properties                                                              *)
(***************************************************************************)
Done(t) == pc[t] = "done"

Code(t) == Val(resp[t]).code

Body(t) == Val(resp[t]).body

\* The environment names all three credentials, none of them empty.
ValidCredentials ==
    /\ env.instance_url \notin {None, Some(<<>>)}
    /\ env.username \notin {None, Some("")}
    /\ env.password \notin {None, Some("")}

CreatePath == <<"mcp", "incident", "create">>

IsCreate(t) ==
    /\ ~IsNone(req[t])
    /\ Val(req[t]).method = "POST"
    /\ Val(req[t]).path = CreatePath

\* The JSON body of thread t's request is an object with a non-empty
\* short_description.
HasShortDescription(t) ==
    /\ Val(req[t]).body.kind = "object"
    /\ \E kv \in Val(req[t]).body.obj : kv[1] = "short_description" /\ kv[2] # ""

\* The body of thread t's request lacks short_description: no body, the
\* field absent, or the field empty.
LacksShortDescription(t) ==
    \/ Val(req[t]).body.kind = "none"
    \/ /\ Val(req[t]).body.kind = "object"
       /\ \A kv \in Val(req[t]).body.obj : kv[1] = "short_description" => kv[2] = ""

Replied(t, kinds) == ~IsNone(reply[t]) /\ Val(reply[t]).kind \in kinds

\* C1: with valid credentials, a POST /mcp/incident/create whose body has a
\* non-empty short_description and whose outbound call succeeded returns
\* 201 with the vendor's payload, unchanged, as `result`.
C1_CreateForwardsPayload ==
    \A t \in Threads :
        (Done(t) /\ ValidCredentials /\ IsCreate(t) /\ HasShortDescription(t)
            /\ Replied(t, {"ok"}))
        => /\ Code(t) = 201
           /\ <<"result", Val(reply[t]).text>> \in Body(t)
           /\ \A kv \in Body(t) : kv[1] = "result" => kv[2] = Val(reply[t]).text

C1_Witness ==
    \E t \in Threads :
        /\ Done(t) /\ ValidCredentials /\ IsCreate(t) /\ HasShortDescription(t)
        /\ Replied(t, {"ok"})
        /\ Cardinality(Val(req[t]).body.obj) = 2
        /\ Code(t) = 201

C3_VendorFailureIs500 ==
    \A t \in Threads :
        (Done(t) /\ Replied(t, {"transport", "http"}))
        => /\ Code(t) = 500
           /\ Body(t) = {<<"status", "error">>, <<"error", Val(reply[t]).text>>}

C3_Witness ==
    \E t \in Threads :
        /\ Done(t) /\ Replied(t, {"http"})
        /\ Val(req[t]).method = "PUT"
        /\ Val(req[t]).path = <<"mcp", "incident", "abc123">>
        /\ Code(t) = 500

\* The paths the application registers, by shape.
RegisteredPath(p) ==
    \/ p = <<>>
    \/ Len(p) >= 2 /\ p[1] = "mcp"
       /\ \/ Len(p) = 2 /\ p[2] \in {"tools", "resources", "incidents"}
          \/ Len(p) = 3 /\ p[2] = "incident"
          \/ Len(p) = 3 /\ p[2] = "incidents" /\ p[3] = "search"
          \/ Len(p) \in {3, 4} /\ p[2] = "table"

\* C4: a request whose path matches no registered route returns 404 and
\* makes no outbound call.
C4_UnknownRouteIs404 ==
    \A t \in Threads :
        (~IsNone(req[t]) /\ ~RegisteredPath(Val(req[t]).path))
        => /\ pc[t] = "done"
           /\ Code(t) = 404
           /\ calls[t] = <<>>
           /\ IsNone(reply[t])

C4_Witness ==
    \E t \in Threads :
        /\ Done(t)
        /\ Val(req[t]).path = <<"mcp", "table", "cmdb_ci", "abc123", "extra">>
        /\ Val(req[t]).method = "GET"
        /\ Code(t) = 404

\* C5: handling one request makes at most one outbound call, whatever the
\* route and the outcome; once the call has an outcome, failed or not, the
\* request is over and no further call is pending.
C5_AtMostOneCall ==
    \A t \in Threads :
        /\ Len(calls[t]) <= 1
        /\ pc[t] = "await" => (Len(calls[t]) = 1 /\ IsNone(reply[t]))
        /\ ~IsNone(reply[t]) => pc[t] = "done"

C5_Witness ==
    \E t \in Threads :
        /\ Done(t) /\ Replied(t, {"transport"})
        /\ Len(calls[t]) = 1
        /\ Code(t) = 500

\* C6 as stated: whenever requests call get_snow_client while no client
\* exists yet, exactly one ServiceNowClient is built and every such caller
\* gets that same instance.
C6_Original ==
    \A t \in Threads :
        got[t] \in {"built", "raised"}
        => /\ built = 1
           /\ ~IsNone(client[t])
           /\ client[t] = snow_client

\* C6, amended: at most one ServiceNowClient is built in the life of the
\* process, and only by the import-time call: with valid credentials it is
\* built before the first request and every caller gets that instance;
\* without them, the requests that call get_snow_client while no client
\* exists, however they interleave, build none and each gets the ValueError.
C6_BuiltAtMostOnce ==
    /\ built <= 1
    /\ built = 1 <=> (phase = "serving" /\ ValidCredentials)
    /\ built = 0 <=> IsNone(snow_client)
    /\ built = 1 => (snow_client = test_client /\ Val(snow_client).id = 1)
    /\ \A t \in Threads :
          /\ got[t] # "built"
          /\ got[t] = "cached" => (~IsNone(client[t]) /\ client[t] = snow_client)
          /\ got[t] = "raised" => (IsNone(client[t]) /\ built = 0)
          /\ pc[t] = "construct" => built = 0

\* Two requests are inside get_snow_client at once, both past the test
\* `snow_client is None`; one has already got the ValueError.
C6_Witness ==
    \E t \in Threads, u \in Threads :
        /\ t # u
        /\ pc[t] = "construct"
        /\ got[u] = "raised"
        /\ built = 0

C6_WitnessCached ==
    \E t \in Threads, u \in Threads :
        /\ t # u
        /\ got[t] = "cached" /\ got[u] = "cached"
        /\ client[t] = client[u]
        /\ built = 1

\* The outbound verb and endpoint the spec gives for a request.
ExpectedCall(r) ==
    LET p == r.path
        m == r.method
    IN  IF m = "POST" /\ p = CreatePath
        THEN <<"POST", <<"table", "/", "incident">>>>
        ELSE IF m = "GET" /\ Len(p) = 3 /\ p[2] = "incident"
        THEN <<"GET", <<"table", "/", "incident", "/", p[3]>>>>
        ELSE IF m \in {"PATCH", "PUT"} /\ Len(p) = 3 /\ p[2] = "incident"
        THEN <<"PATCH", <<"table", "/", "incident", "/", p[3]>>>>
        ELSE IF m = "GET" /\ Len(p) >= 2 /\ p[2] = "incidents"
        THEN <<"GET", <<"table", "/", "incident">>>>
        ELSE IF m = "GET" /\ Len(p) = 3 /\ p[2] = "table"
        THEN <<"GET", <<"table", "/", p[3]>>>>
        ELSE IF m = "GET" /\ Len(p) = 4 /\ p[2] = "table"
        THEN <<"GET", <<"table", "/", p[3], "/", p[4]>>>>
        ELSE <<"", <<>>>>

\* The request of thread t is one to a vendor-calling route.
VendorRoute(t) == ~IsNone(req[t]) /\ ExpectedCall(Val(req[t]))[1] # ""

MissingCredentials == ~ValidCredentials

LogHas(entry) == \E i \in 1..Len(log) : log[i] = entry

\* C7: with a credential unset or empty, the import logs the failure and
\* the server starts; every later request to a vendor-calling route returns
\* 500 with the missing-variables message, builds no client and makes no
\* outbound call; GET / and GET /mcp/tools return 200.
C7_MissingCredentials ==
    (phase = "serving" /\ MissingCredentials)
    => /\ LogHas(<<"ERROR", "Failed to initialize ServiceNow client: "
                              \o MissingEnvMessage>>)
       /\ built = 0
       /\ IsNone(snow_client)
       /\ \A t \in Threads :
             /\ (Done(t) /\ VendorRoute(t))
                => /\ Code(t) = 500
                   /\ Body(t) = {<<"status", "error">>,
                                 <<"error", MissingEnvMessage>>}
             /\ (Done(t) /\ Val(req[t]).method = "GET"
                   /\ Val(req[t]).path \in {<<>>, <<"mcp", "tools">>})
                => Code(t) = 200
             /\ calls[t] = <<>>
             /\ IsNone(client[t])

C7_Witness ==
    \E t \in Threads :
        /\ phase = "serving" /\ MissingCredentials
        /\ env.password = Some("")
        /\ Done(t)
        /\ Val(req[t]).method = "GET"
        /\ Val(req[t]).path = <<"mcp", "table", "cmdb_ci">>
        /\ Code(t) = 500

\* C8: once the client exists, no step of any request handler, succeeding
\* or failing, replaces it or changes a field of it, and none writes the
\* other module-level state (test_client, the environment).
C8_ClientReadOnly ==
    [][phase = "serving"
         => /\ (~IsNone(snow_client) => snow_client' = snow_client)
            /\ test_client' = test_client
            /\ env' = env
            /\ phase' = phase]_vars

C8_Witness ==
    \E t \in Threads, u \in Threads :
        /\ t # u
        /\ ~IsNone(snow_client)
        /\ Done(t) /\ Replied(t, {"transport"})
        /\ Done(u) /\ Replied(u, {"ok"})

\* C9: every outbound call has the verb and the path, under
\* <base>/api/now/, that the route fixes, whatever the body and the query
\* parameters of the request: the base is the instance URL without its
\* trailing slashes.
C9_FixedVerbAndPath ==
    \A t \in Threads :
        \A i \in 1..Len(calls[t]) :
            /\ calls[t][i].verb = ExpectedCall(Val(req[t]))[1]
            /\ calls[t][i].url = <<"https://snow", "/", "api", "/", "now", "/">>
                                    \o ExpectedCall(Val(req[t]))[2]

C9_Witness ==
    \E t \in Threads :
        /\ ~IsNone(req[t])
        /\ Val(req[t]).method = "PUT"
        /\ Val(req[t]).path = <<"mcp", "incident", "abc123">>
        /\ env.instance_url = Some(<<"https://snow", "/", "/">>)
        /\ Len(calls[t]) = 1
        /\ calls[t][1].verb = "PATCH"

\* The request of thread t passes the validation of create or of update.
PassesValidation(t) ==
    /\ ~IsNone(req[t])
    /\ Val(req[t]).body.kind = "object"
    /\ \/ IsCreate(t) /\ HasShortDescription(t)
       \/ /\ Val(req[t]).method \in {"PATCH", "PUT"}
          /\ Len(Val(req[t]).path) = 3
          /\ Val(req[t]).path[2] = "incident"
          /\ Val(req[t]).body.obj # {}

\* C10: for create and update, with the client in hand, every inbound JSON
\* object that passes the route's validation is sent to the vendor as the
\* JSON body with exactly its field names and values, whatever the names.
C10_BodyForwarded ==
    \A t \in Threads :
        (pc[t] \in {"await", "done"} /\ ValidCredentials /\ PassesValidation(t))
        => /\ Len(calls[t]) = 1
           /\ calls[t][1].json = Some(Val(req[t]).body.obj)

\* The request of thread t is a GET of the given path shape.
IsSearch(t) ==
    /\ ~IsNone(req[t])
    /\ Val(req[t]).method = "GET"
    /\ Val(req[t]).path = <<"mcp", "incidents", "search">>

IsList(t) ==
    /\ ~IsNone(req[t])
    /\ Val(req[t]).method = "GET"
    /\ Val(req[t]).path = <<"mcp", "incidents">>

IsTableQuery(t) ==
    /\ ~IsNone(req[t])
    /\ Val(req[t]).method = "GET"
    /\ Len(Val(req[t]).path) = 3
    /\ Val(req[t]).path[2] = "table"

\* The query and limit arguments of thread t's request, as given.
QueryGiven(t) == \E kv \in Val(req[t]).args : kv[1] = "query"

QueryArg(t) == (CHOOSE kv \in Val(req[t]).args : kv[1] = "query")[2]

LimitGiven(t) == \E kv \in Val(req[t]).args : kv[1] = "limit"

LimitArg(t) == (CHOOSE kv \in Val(req[t]).args : kv[1] = "limit")[2]

\* The integer a limit argument denotes, for the arguments explored.
LimitDenotes(l) ==
    CASE l = <<"5">> -> 5
      [] l = <<"2", "5">> -> 25
      [] l = <<"-", "1">> -> 0 - 1

\* The limit argument is given and is not the text of an integer.
LimitNotInteger(t) ==
    LimitGiven(t) /\ LimitArg(t) \notin {<<"5">>, <<"2", "5">>, <<"-", "1">>}

\* sysparm_limit as the claim has it: the caller's limit, 10 without one.
ExpectedLimit(t) == IF LimitGiven(t) THEN LimitDenotes(LimitArg(t)) ELSE 10

\* C11: the outbound call of search, list-incidents and table-query carries
\* the caller's limit as sysparm_limit, 10 when none was given; search sends
\* the query as sysparm_query; table-query sends sysparm_query only for a
\* non-empty query; list-incidents never sends it; nothing else is sent.
C11_LimitAndQueryForwarded ==
    \A t \in Threads :
        \A i \in 1..Len(calls[t]) :
            LET sent == calls[t][i].params
                lim  == {<<"sysparm_limit", ExpectedLimit(t)>>}
            IN  /\ IsSearch(t) =>
                      sent = Some(lim \cup {<<"sysparm_query", QueryArg(t)>>})
                /\ IsList(t) => sent = Some(lim)
                /\ IsTableQuery(t) =>
                      sent = Some(lim \cup
                                  (IF QueryGiven(t) /\ QueryArg(t) # ""
                                   THEN {<<"sysparm_query", QueryArg(t)>>}
                                   ELSE {}))

\* A table query with an empty query and a two-digit limit has been sent.
C11_Witness ==
    \E t \in Threads :
        /\ IsTableQuery(t)
        /\ QueryGiven(t) /\ QueryArg(t) = ""
        /\ LimitGiven(t) /\ LimitArg(t) = <<"2", "5">>
        /\ Len(calls[t]) = 1
        /\ calls[t][1].params = Some({<<"sysparm_limit", 25>>})

IsUpdate(t) ==
    /\ ~IsNone(req[t])
    /\ Val(req[t]).method \in {"PATCH", "PUT"}
    /\ Len(Val(req[t]).path) = 3
    /\ Val(req[t]).path[2] = "incident"

\* Thread t's request is one the validation of update or of search rejects.
UpdateWithoutData(t) ==
    /\ IsUpdate(t)
    /\ \/ Val(req[t]).body.kind = "none"
       \/ Val(req[t]).body.kind = "object" /\ Val(req[t]).body.obj = {}

SearchWithoutQuery(t) ==
    IsSearch(t) /\ (QueryGiven(t) => QueryArg(t) = "")

IntErrorText(l) ==
    CASE l = <<>> -> "invalid literal for int() with base 10: ''"
      [] l = <<"a", "b", "c">> -> "invalid literal for int() with base 10: 'abc'"

\* C14: on search, list-incidents and table-query a limit that is not an
\* integer yields 500 and no outbound call, whatever the other arguments:
\* on search also when the query is missing or empty, so that request gets
\* 500 and not 400.  With the client in hand the 500 carries int()'s message.
C14_BadLimitIs500 ==
    \A t \in Threads :
        (Done(t) /\ (IsSearch(t) \/ IsList(t) \/ IsTableQuery(t))
            /\ LimitNotInteger(t))
        => /\ Code(t) = 500
           /\ calls[t] = <<>>
           /\ IsNone(reply[t])
           /\ ValidCredentials =>
                 Body(t) = {<<"status", "error">>,
                            <<"error", IntErrorText(LimitArg(t))>>}

C14_Witness ==
    \E t \in Threads :
        /\ Done(t) /\ ValidCredentials
        /\ IsSearch(t) /\ ~QueryGiven(t)
        /\ LimitGiven(t) /\ LimitArg(t) = <<"a", "b", "c">>
        /\ Code(t) = 500
        /\ calls[t] = <<>>

(***************************************************************************)
(* app_mcp.py: the subprocess bridge.  A second application: each request  *)
(* that gets through its checks runs one MCP call on an event loop of its  *)
(* own, against an MCP server started as a subprocess over stdio.          *)
(***************************************************************************)
\* class MCPBridge, __init__: the credentials from the environment, or the
\* ValueError when one is missing or empty.
MCPBridgeInit(e) ==
    IF ~CredsPresent(e)
    THEN [kind |-> "raise", bridge |-> None,
          exc |-> Exc("ValueError",
                      "Missing ServiceNow credentials in environment variables")]
    ELSE [kind |-> "return",
          bridge |-> Some([instance_url |-> Val(e.instance_url),
                           username |-> Val(e.username),
                           password |-> Val(e.password)]),
          exc |-> Exc("", "")]

\* get_bridge(): the global bridge, built on first use.
GetBridge(b, e) ==
    IF ~IsNone(b)
    THEN [kind |-> "return", bridge |-> b, exc |-> Exc("", "")]
    ELSE MCPBridgeInit(e)

\* The methods call_mcp_server dispatches on.
McpMethods == {"list_resources", "list_tools", "call_tool", "read_resource"}

\* bridge.call_mcp_server(method, params)
McpCall(method, params) == [method |-> method, params |-> params]

BridgePaths ==
    {<<>>, <<"mcp">>, <<"mcp", "resources">>, <<"mcp", "tools">>,
     <<"mcp", "tool", "create_incident">>, <<"mcp", "resource">>,
     <<"mcp", "unknown">>}

\* JSON objects posted to the bridge: `method` a string, `params` an object.
BridgeObjects ==
    {{},
     {<<"method", "">>},
     {<<"params", {}>>},
     {<<"method", "bogus">>},
     {<<"method", "list_resources">>},
     {<<"method", "list_tools">>, <<"params", {}>>},
     {<<"method", "call_tool">>,
      <<"params", {<<"name", "create_incident">>}>>},
     {<<"method", "read_resource">>,
      <<"params", {<<"uri", "servicenow://incidents">>}>>}}

BridgeBodies ==
    {[kind |-> "none", obj |-> {}], [kind |-> "malformed", obj |-> {}]}
    \cup {[kind |-> "object", obj |-> o] : o \in BridgeObjects}

BridgeArgSets == {{}, {<<"uri", "">>}, {<<"uri", "servicenow://incidents">>}}

\* The requests explored: a body on POST, a query string on GET.
BridgeRequests ==
    {[method |-> "GET", path |-> p, body |-> [kind |-> "none", obj |-> {}],
      args |-> a] : p \in BridgePaths, a \in BridgeArgSets}
    \cup {[method |-> "POST", path |-> p, body |-> b, args |-> {}] :
            p \in BridgePaths, b \in BridgeBodies}
    \cup {[method |-> "DELETE", path |-> p,
           body |-> [kind |-> "none", obj |-> {}], args |-> {}] :
            p \in BridgePaths}

\* The @app.route table of app_mcp.py.
BridgeRules ==
    {Rule(<<>>, {"GET"}, "health_check"),
     Rule(<<"mcp">>, {"POST"}, "mcp_endpoint"),
     Rule(<<"mcp", "resources">>, {"GET"}, "list_resources"),
     Rule(<<"mcp", "tools">>, {"GET"}, "list_tools"),
     Rule(<<"mcp", "tool", "<tool_name>">>, {"POST"}, "call_tool"),
     Rule(<<"mcp", "resource">>, {"GET"}, "read_resource")}

BridgeIsVar(seg) == seg = "<tool_name>"

BridgePathMatches(pattern, path) ==
    /\ Len(pattern) = Len(path)
    /\ \A i \in 1..Len(path) : BridgeIsVar(pattern[i]) \/ pattern[i] = path[i]

\* Flask's dispatch over BridgeRules: 404, 405 or the view and its argument.
BridgeDispatch(method, path) ==
    LET byPath == {r \in BridgeRules : BridgePathMatches(r.pattern, path)}
        hits   == {r \in byPath : method \in r.methods}
    IN  IF byPath = {} THEN [kind |-> "404", view |-> "not_found", args |-> {}]
        ELSE IF hits = {} THEN [kind |-> "405", view |-> "", args |-> {}]
        ELSE LET r == CHOOSE h \in hits : TRUE
             IN  [kind |-> "view", view |-> r.view,
                  args |-> {<<r.pattern[i], path[i]>> :
                              i \in {j \in 1..Len(path) :
                                        BridgeIsVar(r.pattern[j])}}]

\* health_check of app_mcp.py
BridgeHealth(available) ==
    Response(200, {<<"status", "healthy">>,
                   <<"service", "ServiceNow MCP-over-HTTP Bridge">>,
                   <<"version", "1.0.0">>,
                   <<"mcp_available", available>>,
                   <<"endpoints", "<endpoints>">>})

\* `if not MCP_AVAILABLE: return ..., 500`, the first statement of each view
\* but health_check.
McpUnavailable(view) ==
    Response(500,
             {<<"error", "MCP library not available">>}
             \cup (IF view = "mcp_endpoint"
                   THEN {<<"hint", "Install with: pip install mcp">>}
                   ELSE {}))

BridgeErrPrefix(view) ==
    CASE view = "mcp_endpoint" -> "Error in MCP endpoint: "
      [] view = "list_resources" -> "Error listing resources: "
      [] view = "list_tools" -> "Error listing tools: "
      [] view = "call_tool" -> "Error calling tool: "
      [] view = "read_resource" -> "Error reading resource: "

\* `except Exception as e` of a bridge view: log, and 500 with str(e); the
\* generic endpoint adds the exception's type.
BridgeErr(view, exc) ==
    Respond(Response(500,
                     {<<"error", exc.text>>}
                     \cup (IF view = "mcp_endpoint"
                           THEN {<<"type", exc.type>>} ELSE {})),
            << <<"ERROR", BridgeErrPrefix(view) \o exc.text>> >>)

\* mcp_endpoint down to get_bridge(): the checks, then the call to make.
McpEndpoint(rq) ==
    LET j == GetJson(rq.body)
    IN  IF j.kind = "raise" THEN BridgeErr("mcp_endpoint", j.exc)
        ELSE IF IsNone(j.value) \/ Val(j.value) = {}
        THEN Respond(Response(400, {<<"error", "No JSON data provided">>}), <<>>)
        ELSE LET data == Val(j.value)
                 params == GetOr(data, "params", {})
             IN  IF FalsyGet(data, "method")
                 THEN Respond(Response(400, {<<"error", "Method is required">>}),
                              <<>>)
                 ELSE Send(McpCall(Get(data, "method"), params),
                           << <<"INFO", "MCP request: " \o Get(data, "method")
                                        \o " with params: " \o ToString(params)>> >>)

\* call_tool down to get_bridge()
McpCallTool(rq, tool_name) ==
    LET j == GetJson(rq.body)
    IN  IF j.kind = "raise" THEN BridgeErr("call_tool", j.exc)
        ELSE LET arguments == IF IsNone(j.value) \/ Val(j.value) = {}
                              THEN {} ELSE Val(j.value)
             IN  Send(McpCall("call_tool", {<<"name", tool_name>>,
                                            <<"arguments", arguments>>}),
                      <<>>)

\* read_resource down to get_bridge()
McpReadResource(rq) ==
    IF FalsyGet(rq.args, "uri")
    THEN Respond(Response(400, {<<"error", "uri parameter is required">>}), <<>>)
    ELSE Send(McpCall("read_resource", {<<"uri", Get(rq.args, "uri")>>}), <<>>)

\* A view of app_mcp.py from its first statement to get_bridge(): the
\* response it returns early, or the MCP call it goes on to make.
BridgeViewStart(view, rq, va, available) ==
    IF view = "health_check" THEN Respond(BridgeHealth(available), <<>>)
    ELSE IF ~available THEN Respond(McpUnavailable(view), <<>>)
    ELSE CASE view = "mcp_endpoint" -> McpEndpoint(rq)
           [] view = "list_resources" -> Send(McpCall("list_resources", {}), <<>>)
           [] view = "list_tools" -> Send(McpCall("list_tools", {}), <<>>)
           [] view = "call_tool" -> McpCallTool(rq, Get(va, "<tool_name>"))
           [] view = "read_resource" -> McpReadResource(rq)

\* What starting the subprocess, the MCP handshake and the MCP call can do:
\* succeed, or raise.  A result may hold objects jsonify cannot serialise.
McpOk == [kind |-> "ok", type |-> "", text |-> "<mcp result>"]

SpawnOutcomes ==
    {McpOk,
     [kind |-> "raise", type |-> "FileNotFoundError",
      text |-> "[Errno 2] No such file or directory: 'python'"]}

InitializeOutcomes ==
    {McpOk, [kind |-> "raise", type |-> "McpError", text |-> "Connection closed"]}

McpOutcomes ==
    InitializeOutcomes
    \cup {[kind |-> "unserializable", type |-> "TypeError",
           text |-> "Object of type TextContent is not JSON serializable"]}

\* The key of the dict call_mcp_server returns for a method.
ResultKey(method) ==
    CASE method = "list_resources" -> "resources"
      [] method = "list_tools" -> "tools"
      [] method = "call_tool" -> "result"
      [] method = "read_resource" -> "contents"

\* An exception inside call_mcp_server's try: logged there, re-raised, and
\* turned into the view's 500.
McpRaised(view, exc) ==
    LET v == BridgeErr(view, exc)
    IN  Respond(Val(v.resp),
                << <<"ERROR", "Error calling MCP server: " \o exc.text>> >>
                \o v.log)

\* call_mcp_server returned: `return jsonify(result), 200`, or the TypeError
\* jsonify raises, caught by the view.
McpReturned(view, method, o) ==
    IF o.kind = "ok"
    THEN Respond(Response(200, {<<ResultKey(method), o.text>>}), <<>>)
    ELSE BridgeErr(view, Exc(o.type, o.text))

\* A bridge request arrives at idle thread t and runs to its early response or
\* to the point of get_bridge().
BridgeReceive(t, r) ==
    /\ pc[t] = "idle"
    /\ LET d == BridgeDispatch(r.method, r.path)
       IN  /\ req' = [req EXCEPT ![t] = Some(r)]
           /\ route' = [route EXCEPT ![t] = d]
           /\ IF d.kind = "404"
              THEN /\ pc' = [pc EXCEPT ![t] = "done"]
                   /\ resp' = [resp EXCEPT ![t] = Some(NotFound)]
                   /\ UNCHANGED tlog
              ELSE IF d.kind = "405"
              THEN /\ pc' = [pc EXCEPT ![t] = "done"]
                   /\ resp' = [resp EXCEPT ![t] = Some(MethodNotAllowed)]
                   /\ UNCHANGED tlog
              ELSE LET step == BridgeViewStart(d.view, r, d.args, mcp_available)
                   IN  /\ pc' = [pc EXCEPT ![t] = IF step.kind = "send"
                                                  THEN "get_bridge" ELSE "done"]
                       /\ resp' = [resp EXCEPT ![t] = step.resp]
                       /\ tlog' = [tlog EXCEPT ![t] = @ \o step.log]
    /\ UNCHANGED <<globals, client, got, calls, reply, bridge>>

\* Variant of BridgeUnwind without the `finally`: the loop is closed only
\* when the call returned and the response is the 200.
BridgeUnwindNoFinally(t, o, step) ==
    /\ sessions' = [sessions EXCEPT ![t] =
                      [i \in DOMAIN @ |-> IF @[i] = "starting" THEN "failed"
                                          ELSE "closed"]]
    /\ loops' = [loops EXCEPT ![t] =
                    IF Val(step.resp).code = 200
                    THEN [i \in DOMAIN @ |-> "closed"] ELSE @]
    /\ pc' = [pc EXCEPT ![t] = "done"]
    /\ reply' = [reply EXCEPT ![t] = Some(o)]
    /\ resp' = [resp EXCEPT ![t] = step.resp]
    /\ tlog' = [tlog EXCEPT ![t] = @ \o step.log]
    /\ UNCHANGED <<globals, req, route, client, got, calls,
                   mcp_available, mcp_bridge>>

\* Control leaves call_mcp_server with outcome o, by return or by exception:
\* the two `async with` blocks exit (a session that came up is closed, one
\* that did not is over), run_until_complete ends, `finally: loop.close()`
\* runs, and the view has its response.
BridgeUnwind(t, o, step) ==
    /\ sessions' = [sessions EXCEPT ![t] =
                      [i \in DOMAIN @ |-> IF @[i] = "starting" THEN "failed"
                                          ELSE "closed"]]
    /\ loops' = [loops EXCEPT ![t] = [i \in DOMAIN @ |-> "closed"]]
    /\ pc' = [pc EXCEPT ![t] = "done"]
    /\ reply' = [reply EXCEPT ![t] = Some(o)]
    /\ resp' = [resp EXCEPT ![t] = step.resp]
    /\ tlog' = [tlog EXCEPT ![t] = @ \o step.log]
    /\ UNCHANGED <<globals, req, route, client, got, calls,
                   mcp_available, mcp_bridge>>

\* get_bridge(), then a new event loop made current, then
\* run_until_complete(bridge.call_mcp_server(...)) up to entering
\* stdio_client.  When MCPBridge() raises, the view answers 500 at once.
BridgeGetBridge(t) ==
    /\ pc[t] = "get_bridge"
    /\ LET rq == Val(req[t])
           view == route[t].view
           step == BridgeViewStart(view, rq, route[t].args, mcp_available)
           g == GetBridge(mcp_bridge, env)
       IN  IF g.kind = "raise"
           THEN LET e == BridgeErr(view, g.exc)
                IN  /\ pc' = [pc EXCEPT ![t] = "done"]
                    /\ resp' = [resp EXCEPT ![t] = e.resp]
                    /\ tlog' = [tlog EXCEPT ![t] = @ \o e.log]
                    /\ UNCHANGED <<calls, bridge>>
           ELSE /\ mcp_bridge' = g.bridge
                /\ loops' = [loops EXCEPT ![t] = Append(@, "open")]
                /\ calls' = [calls EXCEPT ![t] = Append(@, Val(step.call))]
                /\ sessions' = [sessions EXCEPT ![t] = Append(@, "starting")]
                /\ pc' = [pc EXCEPT ![t] = "spawn"]
                /\ UNCHANGED <<mcp_available, resp, tlog>>
    /\ UNCHANGED <<globals, req, route, client, got, reply>>

\* stdio_client(server_params) is entered: the subprocess is up, or could
\* not be started.
BridgeSpawn(t, o) ==
    /\ pc[t] = "spawn"
    /\ IF o.kind = "ok"
       THEN /\ sessions' = [sessions EXCEPT ![t] =
                               [i \in DOMAIN @ |-> "open"]]
            /\ pc' = [pc EXCEPT ![t] = "initialize"]
            /\ UNCHANGED <<globals, req, route, client, got, calls, reply,
                           resp, tlog, mcp_available, mcp_bridge, loops>>
       ELSE BridgeUnwind(t, o, McpRaised(route[t].view, Exc(o.type, o.text)))

\* ClientSession is entered and session.initialize() is over; on success
\* the dispatch on `method` follows, which raises on an unknown method.
BridgeInitialize(t, o) ==
    /\ pc[t] = "initialize"
    /\ LET method == calls[t][1].method
       IN  IF o.kind = "raise"
           THEN BridgeUnwind(t, o, McpRaised(route[t].view,
                                             Exc(o.type, o.text)))
           ELSE IF method \notin McpMethods
           THEN LET x == Exc("ValueError", "Unknown method: " \o method)
                IN  BridgeUnwind(t, [kind |-> "raise", type |-> x.type,
                                     text |-> x.text],
                                 McpRaised(route[t].view, x))
           ELSE /\ pc' = [pc EXCEPT ![t] = "call"]
                /\ UNCHANGED <<globals, req, route, client, got, calls, reply,
                               resp, tlog, bridge>>

\* The awaited session call of the method is over.
BridgeCall(t, o) ==
    /\ pc[t] = "call"
    /\ IF o.kind = "raise"
       THEN BridgeUnwind(t, o, McpRaised(route[t].view, Exc(o.type, o.text)))
       ELSE BridgeUnwind(t, o, McpReturned(route[t].view,
                                           calls[t][1].method, o))

BridgeAccept(t, R) ==
    /\ pc[t] = "idle"
    /\ \E r \in R : BridgeReceive(t, r)

BridgeSpawnStep(t) ==
    /\ pc[t] = "spawn"
    /\ \E o \in SpawnOutcomes : BridgeSpawn(t, o)

BridgeInitializeStep(t) ==
    /\ pc[t] = "initialize"
    /\ \E o \in InitializeOutcomes : BridgeInitialize(t, o)

BridgeCallStep(t) ==
    /\ pc[t] = "call"
    /\ \E o \in McpOutcomes : BridgeCall(t, o)

\* app_mcp.py imported: MCP_AVAILABLE either way, no bridge yet, serving.
InitBridge ==
    /\ env \in Envs
    /\ phase = "serving"
    /\ snow_client = None
    /\ test_client = None
    /\ built = 0
    /\ mcp_available \in BOOLEAN
    /\ log = IF mcp_available THEN <<>>
             ELSE << <<"WARNING",
                       "MCP library not available, using fallback mode">> >>
    /\ InitThreads({1})
    /\ mcp_bridge = None
    /\ loops = [t \in {1} |-> <<>>]
    /\ sessions = [t \in {1} |-> <<>>]

NextBridge ==
    \/ \E t \in Threads : BridgeAccept(t, BridgeRequests)
    \/ \E t \in Threads : BridgeGetBridge(t)
    \/ \E t \in Threads : BridgeSpawnStep(t)
    \/ \E t \in Threads : BridgeInitializeStep(t)
    \/ \E t \in Threads : BridgeCallStep(t)
    \/ \E t \in Threads : SendResponse(t)

\* app_mcp.py serving one request at a time.
SpecBridge == InitBridge /\ [][NextBridge]_vars

(***************************************************************************)
(* The bridge's event loops and subprocess sessions                        *)
(***************************************************************************)
BridgeReq(t, method, path) ==
    /\ ~IsNone(req[t])
    /\ Val(req[t]).method = method
    /\ Val(req[t]).path = path

\* The request of thread t is for one of the routes that make an MCP call.
McpRoute(t) ==
    \/ BridgeReq(t, "POST", <<"mcp">>)
    \/ BridgeReq(t, "GET", <<"mcp", "resources">>)
    \/ BridgeReq(t, "GET", <<"mcp", "tools">>)
    \/ \E name \in {"create_incident"} :
          BridgeReq(t, "POST", <<"mcp", "tool", name>>)
    \/ BridgeReq(t, "GET", <<"mcp", "resource">>)

\* POST /mcp without a JSON body, with an empty object, or with no method
\* or an empty one.
NoBodyOrMethod(t) ==
    /\ BridgeReq(t, "POST", <<"mcp">>)
    /\ Val(req[t]).body.kind # "malformed"
    /\ \/ Val(req[t]).body.kind = "none"
       \/ \A kv \in Val(req[t]).body.obj : kv[1] = "method" => kv[2] = ""

\* GET /mcp/resource without a uri, or with an empty one.
NoUri(t) ==
    /\ BridgeReq(t, "GET", <<"mcp", "resource">>)
    /\ \A kv \in Val(req[t]).args : kv[1] = "uri" => kv[2] = ""

\* The request of thread t gets as far as the MCP call: the library is
\* there, the credentials are configured, the body parses and the view's
\* own checks pass.
ReachesMcpCall(t) ==
    /\ mcp_available
    /\ ValidCredentials
    /\ McpRoute(t)
    /\ Val(req[t]).body.kind # "malformed"
    /\ ~NoBodyOrMethod(t)
    /\ ~NoUri(t)

NoLoopNoSession(t) ==
    /\ loops[t] = <<>>
    /\ sessions[t] = <<>>
    /\ calls[t] = <<>>

====
